---- MODULE Spec2Model ----
(***************************************************************************)
(* src/include/common.hpp as the preprocessor sees it.                     *)
(*                                                                         *)
(* The header is a list of directives.  The state is the macro table of    *)
(* the translation unit, the position inside the header while an           *)
(* inclusion is being processed, the stack of open conditional groups,     *)
(* and, once the header has been included, one use site of an exported     *)
(* macro: its token sequence while it is being macro-replaced and the      *)
(* outcome of evaluating the fully replaced tokens.                        *)
(***************************************************************************)
EXTENDS Integers, Sequences, FiniteSets, TLC

\* How many times the translation unit includes the header.
MaxIncl == 3
\* The operands a, b of a use site range over -MaxInt..MaxInt.
MaxInt == 2
\* The counter i of a use site starts at 0..MaxCount.
MaxCount == 1

(***************************************************************************)
(* Macro definitions                                                       *)
(***************************************************************************)
Undef == [kind |-> "undef", params |-> <<>>, variadic |-> "", body |-> <<>>,
          by |-> "none"]

Obj(b) == [kind |-> "obj", params |-> <<>>, variadic |-> "", body |-> b,
           by |-> "header"]

Fn(p, v, b) == [kind |-> "fn", params |-> p, variadic |-> v, body |-> b,
                by |-> "header"]

\* Two definitions of one name are compatible when they differ at most in
\* who wrote them.
SameDef(d, e) == [d EXCEPT !.by = "x"] = [e EXCEPT !.by = "x"]

\* #define COMMON_HPP
COMMON_HPP == Obj(<<>>)

\* likely without the double negation: #define likely(x) __builtin_expect((x), 1)
likely_noBang ==
    Fn(<<"x">>, "", <<"__builtin_expect", "(", "(", "x", ")", ",", "1", ")">>)

\* #define likely(x) __builtin_expect(!!(x), 1)
likely == Fn(<<"x">>, "",
             <<"__builtin_expect", "(", "!", "!", "(", "x", ")", ",", "1", ")">>)

\* unlikely without the parentheses around its parameter:
\* #define unlikely(x) __builtin_expect(!!x, 0)
unlikely_noParen ==
    Fn(<<"x">>, "", <<"__builtin_expect", "(", "!", "!", "x", ",", "0", ")">>)

\* #define unlikely(x) __builtin_expect(!!(x), 0)
unlikely == Fn(<<"x">>, "",
               <<"__builtin_expect", "(", "!", "!", "(", "x", ")", ",", "0", ")">>)

ATTRIBUTE_NEVER_INLINE ==
    Obj(<<"__attribute__", "(", "(", "noinline", ")", ")">>)

ATTRIBUTE_ALWAYS_INLINE ==
    Obj(<<"__attribute__", "(", "(", "always_inline", ")", ")">>)

ATTRIBUTE_HIDDEN ==
    Obj(<<"__attribute__", "(", "(", "visibility", "(", "\"hidden\"", ")", ")", ")">>)

ATTRIBUTE_EXPORT ==
    Obj(<<"__attribute__", "(", "(", "visibility", "(", "\"default\"", ")", ")", ")">>)

\* #define ATTRIBUTE_ALIGNED(s) __attribute__((aligned(s)))
ATTRIBUTE_ALIGNED ==
    Fn(<<"s">>, "", <<"__attribute__", "(", "(", "aligned", "(", "s", ")", ")", ")">>)

\* A cache line of 128 bytes.
CACHELINE_SIZE_128 == Obj(<<"128">>)

\* #define CACHELINE_SIZE 64
CACHELINE_SIZE == Obj(<<"64">>)

CACHELINE_ALIGNED == Obj(<<"ATTRIBUTE_ALIGNED", "(", "CACHELINE_SIZE", ")">>)

CACHELINE_ALIGNED_FN == Obj(<<"CACHELINE_ALIGNED">>)

\* #define USE_COMPRESSED_PTRS 0
USE_COMPRESSED_PTRS == Obj(<<"0">>)

\* The size caches switched on: #define USE_SIZE_CACHES 1
USE_SIZE_CACHES_on == Obj(<<"1">>)

\* #define USE_SIZE_CACHES 0  // 1
USE_SIZE_CACHES == Obj(<<"0">>)

\* #define DEBUG(format, args...)
\*     printf("FILE: " __FILE__ ", LINE: %d: " format "\n", __LINE__, ##args)
DEBUG_on ==
    Fn(<<"format">>, "args",
       <<"printf", "(", "\"FILE: \"", "__FILE__", "\", LINE: %d: \"", "format",
         "\"\\n\"", ",", "__LINE__", ",", "##", "args", ")">>)

\* The #else branch printing as the #ifdef branch does.
DEBUG_off_printing == [DEBUG_on EXCEPT !.variadic = "__VA_ARGS__",
                                       !.body[12] = "__VA_ARGS__"]

\* #define DEBUG(format, ...)
DEBUG_off == Fn(<<"format">>, "__VA_ARGS__", <<>>)

(***************************************************************************)
(* The header, line by line                                                *)
(***************************************************************************)
Dir(o, n, d) == [op |-> o, name |-> n, def |-> d]

Blank == Dir("blank", "", Undef)

Line1 == Dir("pragma_once", "", Undef)
Line3 == Dir("ifndef", "COMMON_HPP", Undef)
\* The guard tested but never defined.
Line4_missing == Blank

Line4 == Dir("define", "COMMON_HPP", COMMON_HPP)
\* The guard of the hint macros testing the other name.
Line6_unlikely == Dir("ifndef", "unlikely", Undef)

Line6 == Dir("ifndef", "likely", Undef)
Line7 == Dir("define", "likely", likely)
Line8 == Dir("define", "unlikely", unlikely)
Line9 == Dir("endif", "", Undef)
\* The debug guard inverted.
Line24_inverted == Dir("ifndef", "__DEBUG", Undef)

Line24 == Dir("ifdef", "__DEBUG", Undef)
Line25 == Dir("define", "DEBUG", DEBUG_on)
Line26 == Dir("else", "", Undef)
Line27 == Dir("define", "DEBUG", DEBUG_off)
Line28 == Dir("endif", "", Undef)
Line30 == Dir("endif", "", Undef)

Header ==
    << Line1, Blank, Line3, Line4, Blank,
       Line6, Line7, Line8, Line9, Blank,
       Dir("define", "ATTRIBUTE_NEVER_INLINE", ATTRIBUTE_NEVER_INLINE),
       Dir("define", "ATTRIBUTE_ALWAYS_INLINE", ATTRIBUTE_ALWAYS_INLINE),
       Dir("define", "ATTRIBUTE_HIDDEN", ATTRIBUTE_HIDDEN),
       Dir("define", "ATTRIBUTE_EXPORT", ATTRIBUTE_EXPORT),
       Dir("define", "ATTRIBUTE_ALIGNED", ATTRIBUTE_ALIGNED),
       Dir("define", "CACHELINE_SIZE", CACHELINE_SIZE),
       Dir("define", "CACHELINE_ALIGNED", CACHELINE_ALIGNED),
       Dir("define", "CACHELINE_ALIGNED_FN", CACHELINE_ALIGNED_FN),
       Blank,
       Dir("define", "USE_COMPRESSED_PTRS", USE_COMPRESSED_PTRS),
       Dir("define", "USE_SIZE_CACHES", USE_SIZE_CACHES),
       Blank,
       Blank,       \* //#define __DEBUG
       Line24, Line25, Line26, Line27, Line28, Blank,
       Line30 >>

\* The definition the header's #define of n gives n (DEBUG has two).
HeaderDef(n) ==
    Header[CHOOSE k \in 1..Len(Header) :
               Header[k].op = "define" /\ Header[k].name = n].def

\* The macro names the header is documented to export.
Exported ==
    {"likely", "unlikely", "ATTRIBUTE_NEVER_INLINE", "ATTRIBUTE_ALWAYS_INLINE",
     "ATTRIBUTE_HIDDEN", "ATTRIBUTE_EXPORT", "ATTRIBUTE_ALIGNED", "CACHELINE_SIZE",
     "CACHELINE_ALIGNED", "CACHELINE_ALIGNED_FN", "USE_COMPRESSED_PTRS",
     "USE_SIZE_CACHES", "DEBUG"}

\* Every name a directive of the header tests or defines.
MacroNames == Exported \cup {"COMMON_HPP", "__DEBUG"}

(***************************************************************************)
(* The includer.  Before the first inclusion the translation unit (or the  *)
(* command line) may already have defined some of the names the header     *)
(* tests or defines.  COMMON_HPP is the header's own guard and is defined  *)
(* by line 4 only.                                                         *)
(***************************************************************************)
EnvNames == {"likely", "unlikely", "__DEBUG", "DEBUG", "CACHELINE_SIZE",
             "USE_SIZE_CACHES"}

IncluderDef(n) ==
    CASE n = "likely" ->
           [Fn(<<"x">>, "", <<"(", "x", ")">>) EXCEPT !.by = "includer"]
      [] n = "unlikely" ->
           [Fn(<<"x">>, "", <<"(", "x", ")">>) EXCEPT !.by = "includer"]
      [] n = "__DEBUG" -> [Obj(<<>>) EXCEPT !.by = "includer"]
      [] n = "DEBUG" ->
           [Fn(<<"format">>, "__VA_ARGS__", <<"printf", "(", "format", ")">>)
              EXCEPT !.by = "includer"]
      [] n = "CACHELINE_SIZE" -> [Obj(<<"128">>) EXCEPT !.by = "includer"]
      [] n = "USE_SIZE_CACHES" -> [Obj(<<"1">>) EXCEPT !.by = "includer"]
      [] OTHER -> Undef

VARIABLES
    env,        \* the names defined before the first inclusion
    defs,       \* the macro table: name -> definition, Undef when not defined
    pc,         \* the header line being processed, 0 outside the header
    cond,       \* one entry per open #if group: is the group being taken
    incl,       \* inclusions started so far
    onceSeen,   \* the file has been marked by #pragma once
    log,        \* <<inclusion, name>> for every #define that was executed
    redefined,  \* names whose earlier, different definition a #define replaced
    after1,     \* the macro table when the first inclusion ended
    use,        \* the use site being translated, "none" between use sites
    toks,       \* its tokens, macro-replaced so far
    steps,      \* macro replacements done at this use site
    res         \* outcome of compiling and running the replaced tokens

ppvars == <<env, defs, pc, cond, incl, onceSeen, log, redefined, after1>>

usevars == <<use, toks, steps, res>>

vars == <<env, defs, pc, cond, incl, onceSeen, log, redefined, after1,
          use, toks, steps, res>>

Active == \A k \in 1..Len(cond) : cond[k]

ParentActive == \A k \in 1..(Len(cond) - 1) : cond[k]

InHeader == pc \in 1..Len(Header)

PPInit ==
    /\ env \in SUBSET EnvNames
    /\ defs = [n \in MacroNames |-> IF n \in env THEN IncluderDef(n) ELSE Undef]
    /\ pc = 0
    /\ cond = <<>>
    /\ incl = 0
    /\ onceSeen = FALSE
    /\ log = {}
    /\ redefined = {}
    /\ after1 = [n \in MacroNames |-> Undef]

(***************************************************************************)
(* Processing the header                                                   *)
(***************************************************************************)

\* #include "common.hpp".  #pragma once skips the whole file when the
\* preprocessor recognises it as one it has already marked; it does not
\* when the same header is reached as another file (a copy, another mount
\* of the include directory), and then the lines are processed again.
Include(recognised) ==
    /\ pc = 0
    /\ use = "none"
    /\ incl < MaxIncl
    /\ incl' = incl + 1
    /\ pc' = IF onceSeen /\ recognised THEN 0 ELSE 1
    /\ UNCHANGED <<env, defs, cond, onceSeen, log, redefined, after1>>
    /\ UNCHANGED usevars

\* #pragma once
StepPragmaOnce ==
    /\ InHeader
    /\ Header[pc].op = "pragma_once"
    /\ Active
    /\ onceSeen' = TRUE
    /\ pc' = pc + 1
    /\ UNCHANGED <<env, defs, cond, incl, log, redefined, after1>>
    /\ UNCHANGED usevars

\* An empty line or a comment.
StepBlank ==
    /\ InHeader
    /\ Header[pc].op = "blank"
    /\ pc' = pc + 1
    /\ UNCHANGED <<env, defs, cond, incl, onceSeen, log, redefined, after1>>
    /\ UNCHANGED usevars

\* #ifndef NAME
StepIfndef ==
    /\ InHeader
    /\ Header[pc].op = "ifndef"
    /\ cond' = Append(cond, Active /\ defs[Header[pc].name] = Undef)
    /\ pc' = pc + 1
    /\ UNCHANGED <<env, defs, incl, onceSeen, log, redefined, after1>>
    /\ UNCHANGED usevars

\* #ifdef NAME
StepIfdef ==
    /\ InHeader
    /\ Header[pc].op = "ifdef"
    /\ cond' = Append(cond, Active /\ defs[Header[pc].name] # Undef)
    /\ pc' = pc + 1
    /\ UNCHANGED <<env, defs, incl, onceSeen, log, redefined, after1>>
    /\ UNCHANGED usevars

\* #else
StepElse ==
    /\ InHeader
    /\ Header[pc].op = "else"
    /\ Len(cond) > 0
    /\ cond' = [cond EXCEPT ![Len(cond)] = ParentActive /\ ~cond[Len(cond)]]
    /\ pc' = pc + 1
    /\ UNCHANGED <<env, defs, incl, onceSeen, log, redefined, after1>>
    /\ UNCHANGED usevars

\* #endif
StepEndif ==
    /\ InHeader
    /\ Header[pc].op = "endif"
    /\ Len(cond) > 0
    /\ cond' = SubSeq(cond, 1, Len(cond) - 1)
    /\ pc' = pc + 1
    /\ UNCHANGED <<env, defs, incl, onceSeen, log, redefined, after1>>
    /\ UNCHANGED usevars

\* #define NAME body, in a group that is being taken.  A definition that
\* differs from the one in force is diagnosed and replaces it.
StepDefine ==
    /\ InHeader
    /\ Header[pc].op = "define"
    /\ Active
    /\ LET n == Header[pc].name
           d == Header[pc].def
       IN /\ defs' = [defs EXCEPT ![n] = d]
          /\ log' = log \cup {<<incl, n>>}
          /\ redefined' = IF defs[n] # Undef /\ ~SameDef(defs[n], d)
                             THEN redefined \cup {n}
                             ELSE redefined
    /\ pc' = pc + 1
    /\ UNCHANGED <<env, cond, incl, onceSeen, after1>>
    /\ UNCHANGED usevars

\* A #define or #pragma in a group that is being skipped.
StepSkipped ==
    /\ InHeader
    /\ Header[pc].op \in {"define", "pragma_once"}
    /\ ~Active
    /\ pc' = pc + 1
    /\ UNCHANGED <<env, defs, cond, incl, onceSeen, log, redefined, after1>>
    /\ UNCHANGED usevars

\* The end of the file: back to the includer.
EndOfFile ==
    /\ pc = Len(Header) + 1
    /\ pc' = 0
    /\ after1' = IF incl = 1 THEN defs ELSE after1
    /\ UNCHANGED <<env, defs, cond, incl, onceSeen, log, redefined>>
    /\ UNCHANGED usevars

(***************************************************************************)
(* Macro replacement at a use site                                         *)
(***************************************************************************)
FileTok == "\"use.cpp\""

LineTok == "12"

\* The index of the ")" that closes the "(" at index p, 0 when there is none.
RECURSIVE MatchClose(_, _, _)
MatchClose(t, p, depth) ==
    IF p > Len(t) THEN 0
    ELSE IF t[p] = "(" THEN MatchClose(t, p + 1, depth + 1)
    ELSE IF t[p] = ")" THEN (IF depth = 1 THEN p ELSE MatchClose(t, p + 1, depth - 1))
    ELSE MatchClose(t, p + 1, depth)

\* The arguments of an invocation: the tokens between its parentheses, cut
\* at the commas that are not inside nested parentheses.
RECURSIVE SplitArgs(_, _, _, _)
SplitArgs(t, p, depth, acc) ==
    IF p > Len(t) THEN acc
    ELSE LET n == Len(acc)
             push == [acc EXCEPT ![n] = Append(@, t[p])]
         IN IF t[p] = "," /\ depth = 0 THEN SplitArgs(t, p + 1, depth, Append(acc, <<>>))
            ELSE IF t[p] = "(" THEN SplitArgs(t, p + 1, depth + 1, push)
            ELSE IF t[p] = ")" THEN SplitArgs(t, p + 1, depth - 1, push)
            ELSE SplitArgs(t, p + 1, depth, push)

\* Arguments k.. of an invocation, with the commas that separated them.
RECURSIVE JoinArgs(_, _)
JoinArgs(args, k) ==
    IF k > Len(args) THEN <<>>
    ELSE IF k = Len(args) THEN args[k]
    ELSE args[k] \o <<",">> \o JoinArgs(args, k + 1)

ParamIndex(d, tok) ==
    IF \E j \in 1..Len(d.params) : d.params[j] = tok
      THEN CHOOSE j \in 1..Len(d.params) : d.params[j] = tok
      ELSE 0

\* The replacement list of d from token k on, with the parameters replaced
\* by the arguments.  ", ## rest" drops the comma when the invocation gave
\* no variable arguments and otherwise yields the comma and the arguments.
RECURSIVE Subst(_, _, _)
Subst(d, args, k) ==
    IF k > Len(d.body) THEN <<>>
    ELSE LET tok == d.body[k]
             vargs == JoinArgs(args, Len(d.params) + 1)
             j == ParamIndex(d, tok)
         IN IF /\ tok = ","
               /\ d.variadic # ""
               /\ k + 2 <= Len(d.body)
               /\ d.body[k + 1] = "##"
               /\ d.body[k + 2] = d.variadic
              THEN (IF vargs = <<>> THEN <<>> ELSE <<",">> \o vargs)
                       \o Subst(d, args, k + 3)
            ELSE IF j > 0
              THEN (IF j <= Len(args) THEN args[j] ELSE <<>>) \o Subst(d, args, k + 1)
            ELSE IF d.variadic # "" /\ tok = d.variadic
              THEN vargs \o Subst(d, args, k + 1)
            ELSE <<tok>> \o Subst(d, args, k + 1)

IsBuiltin(tok) == tok \in {"__FILE__", "__LINE__"}

\* Is the token at p the start of a macro invocation.
ReducibleAt(t, p, d) ==
    \/ IsBuiltin(t[p])
    \/ /\ t[p] \in DOMAIN d
       /\ \/ d[t[p]].kind = "obj"
          \/ /\ d[t[p]].kind = "fn"
             /\ p < Len(t)
             /\ t[p + 1] = "("
             /\ MatchClose(t, p + 1, 0) > 0

Reducible(t, d) == \E p \in 1..Len(t) : ReducibleAt(t, p, d)

Leftmost(t, d) ==
    CHOOSE p \in 1..Len(t) :
        /\ ReducibleAt(t, p, d)
        /\ \A q \in 1..(p - 1) : ~ReducibleAt(t, q, d)

\* One macro replacement: the leftmost invocation is replaced by its
\* replacement list; the result is scanned again by the next step.
Rewrite(t, d) ==
    LET p == Leftmost(t, d)
        before == SubSeq(t, 1, p - 1)
    IN IF t[p] = "__FILE__" THEN before \o <<FileTok>> \o SubSeq(t, p + 1, Len(t))
       ELSE IF t[p] = "__LINE__" THEN before \o <<LineTok>> \o SubSeq(t, p + 1, Len(t))
       ELSE IF d[t[p]].kind = "obj"
         THEN before \o d[t[p]].body \o SubSeq(t, p + 1, Len(t))
       ELSE LET close == MatchClose(t, p + 1, 0)
                args == SplitArgs(SubSeq(t, p + 2, close - 1), 1, 0, << <<>> >>)
            IN before \o Subst(d[t[p]], args, 1) \o SubSeq(t, close + 1, Len(t))

(***************************************************************************)
(* Compiling and running the replaced tokens                               *)
(***************************************************************************)
ProgVars == {"a", "b", "i"}

Numerals == {"0", "1", "12", "64", "128"}

NumVal(tok) ==
    CASE tok = "0" -> 0
      [] tok = "1" -> 1
      [] tok = "12" -> 12
      [] tok = "64" -> 64
      [] tok = "128" -> 128
      [] OTHER -> 0

StrToks == {"\"FILE: \"", "\", LINE: %d: \"", "\"\\n\"", "\"fmt\"", FileTok,
            "\"hidden\"", "\"default\""}

Punct == {"(", ")", ",", "!", "-", "||", "++", "##", "<eof>"}

IsIdent(tok) == tok \notin Punct /\ tok \notin Numerals /\ tok \notin StrToks

\* The state of an evaluation: the next token, the value of the expression
\* just evaluated, the program variables, how often each was evaluated, the
\* expectation last passed to __builtin_expect, the printf calls made, and
\* whether the tokens read so far are a well-formed expression.
Start(store) ==
    [pos |-> 1, val |-> 0, st |-> store, cnt |-> [v \in ProgVars |-> 0],
     hint |-> -1, calls |-> 0, ok |-> TRUE]

Tok(t, s) == IF s.pos <= Len(t) THEN t[s.pos] ELSE "<eof>"

Adv(s) == [s EXCEPT !.pos = @ + 1]

Fail(t, s) == [s EXCEPT !.ok = FALSE, !.pos = Len(t) + 1]

Expect(t, s, tok) == IF s.ok /\ Tok(t, s) = tok THEN Adv(s) ELSE Fail(t, s)

Truth(v) == IF v # 0 THEN 1 ELSE 0

RECURSIVE EvOr(_, _, _, _)
RECURSIVE EvOrRest(_, _, _, _)
RECURSIVE EvAdd(_, _, _, _)
RECURSIVE EvAddRest(_, _, _, _)
RECURSIVE EvUnary(_, _, _, _)
RECURSIVE EvPrimary(_, _, _, _)
RECURSIVE EvStrings(_, _)
RECURSIVE EvArgs(_, _, _, _)

\* Adjacent string literals are one string.
EvStrings(t, s) ==
    IF Tok(t, s) \in StrToks THEN EvStrings(t, Adv(s)) ELSE [s EXCEPT !.val = 1]

\* The arguments of a call, each evaluated once, up to the closing ")".
EvArgs(t, s, live, mode) ==
    LET s1 == EvOr(t, s, live, mode)
    IN IF ~s1.ok THEN s1
       ELSE IF Tok(t, s1) = "," THEN EvArgs(t, Adv(s1), live, mode)
       ELSE Expect(t, s1, ")")

EvPrimary(t, s, live, mode) ==
    LET tok == Tok(t, s)
    IN IF ~s.ok THEN s
       ELSE IF tok \in Numerals THEN [Adv(s) EXCEPT !.val = NumVal(tok)]
       ELSE IF tok \in StrToks THEN EvStrings(t, s)
       ELSE IF tok = "(" THEN Expect(t, EvOr(t, Adv(s), live, mode), ")")
       ELSE IF tok = "__builtin_expect" /\ mode = "run"
         THEN LET s1 == EvOr(t, Expect(t, Adv(s), "("), live, mode)
                  s2 == EvOr(t, Expect(t, s1, ","), live, mode)
                  s3 == Expect(t, s2, ")")
              IN IF ~s3.ok THEN s3
                 ELSE [s3 EXCEPT !.val = s1.val,
                                 !.hint = IF live THEN s2.val ELSE @]
       ELSE IF tok = "printf" /\ mode = "run"
         THEN LET s1 == EvArgs(t, Expect(t, Adv(s), "("), live, mode)
              IN IF ~s1.ok THEN s1
                 ELSE [s1 EXCEPT !.val = 0,
                                 !.calls = IF live THEN @ + 1 ELSE @]
       ELSE IF tok \in ProgVars /\ mode = "run"
         THEN LET s1 == [Adv(s) EXCEPT !.val = s.st[tok],
                                       !.cnt[tok] = IF live THEN @ + 1 ELSE @]
              IN IF Tok(t, s1) = "++"
                   THEN [Adv(s1) EXCEPT !.st[tok] = IF live THEN @ + 1 ELSE @]
                   ELSE s1
       \* In #if an identifier that is not a macro is 0; in C++ an
       \* identifier that nothing declares is an error.
       ELSE IF IsIdent(tok) /\ mode = "pp" THEN [Adv(s) EXCEPT !.val = 0]
       ELSE Fail(t, s)

EvUnary(t, s, live, mode) ==
    IF ~s.ok THEN s
    ELSE IF Tok(t, s) = "!"
      THEN LET s1 == EvUnary(t, Adv(s), live, mode)
           IN IF ~s1.ok THEN s1 ELSE [s1 EXCEPT !.val = 1 - Truth(@)]
    ELSE EvPrimary(t, s, live, mode)

EvAddRest(t, s, live, mode) ==
    IF ~s.ok \/ Tok(t, s) # "-" THEN s
    ELSE LET s1 == EvUnary(t, Adv(s), live, mode)
         IN IF ~s1.ok THEN s1
            ELSE EvAddRest(t, [s1 EXCEPT !.val = s.val - @], live, mode)

EvAdd(t, s, live, mode) == EvAddRest(t, EvUnary(t, s, live, mode), live, mode)

\* The right operand of || is evaluated only when the left one is zero.
EvOrRest(t, s, live, mode) ==
    IF ~s.ok \/ Tok(t, s) # "||" THEN s
    ELSE LET s1 == EvAdd(t, Adv(s), live /\ s.val = 0, mode)
         IN IF ~s1.ok THEN s1
            ELSE EvOrRest(t, [s1 EXCEPT !.val = IF s.val # 0 THEN 1 ELSE Truth(@)],
                          live, mode)

EvOr(t, s, live, mode) == EvOrRest(t, EvAdd(t, s, live, mode), live, mode)

\* An attribute specifier: __attribute__((name)) or __attribute__((name(arg))).
AttrOK(t) ==
    \/ /\ Len(t) = 6
       /\ SubSeq(t, 1, 3) = <<"__attribute__", "(", "(">>
       /\ IsIdent(t[4])
       /\ SubSeq(t, 5, 6) = <<")", ")">>
    \/ /\ Len(t) = 9
       /\ SubSeq(t, 1, 3) = <<"__attribute__", "(", "(">>
       /\ IsIdent(t[4])
       /\ t[5] = "("
       /\ t[6] \in Numerals \cup StrToks
       /\ SubSeq(t, 7, 9) = <<")", ")", ")">>

\* The outcome of a use site whose replaced tokens are t, run from store:
\*   "cond"  the operand of if ( ... )
\*   "stmt"  an expression statement, t followed by ;
\*   "ppif"  the operand of #if
\*   "attr"  an attribute in a declaration
Eval(kind, t, store) ==
    LET mode == IF kind = "ppif" THEN "pp" ELSE "run"
        s == IF kind = "attr" \/ (kind = "stmt" /\ t = <<>>)
               THEN [Start(store) EXCEPT !.pos = Len(t) + 1,
                                         !.ok = (kind = "stmt" \/ AttrOK(t))]
               ELSE EvOr(t, Start(store), TRUE, mode)
    IN [ok |-> s.ok /\ s.pos = Len(t) + 1,
        val |-> s.val, st |-> s.st, cnt |-> s.cnt, hint |-> s.hint,
        calls |-> s.calls, st0 |-> store]

(***************************************************************************)
(* Use sites in the including translation unit                             *)
(***************************************************************************)
CondUses ==
    {"likely(a)", "unlikely(a)", "likely(a || b)", "unlikely(a || b)",
     "likely(a - b)", "unlikely(a - b)", "likely(i++)", "unlikely(i++)"}

StmtUses == {"DEBUG(fmt)", "DEBUG(fmt, i++)", "DEBUG(fmt, i++, a)"}

AttrUses == {"CACHELINE_ALIGNED", "CACHELINE_ALIGNED_FN", "ATTRIBUTE_ALIGNED(64)"}

PpifUses == {"#if USE_COMPRESSED_PTRS", "#if USE_SIZE_CACHES", "#if CACHELINE_SIZE"}

Uses == CondUses \cup StmtUses \cup AttrUses \cup PpifUses

UseKind(u) ==
    IF u \in CondUses THEN "cond"
    ELSE IF u \in StmtUses THEN "stmt"
    ELSE IF u \in AttrUses THEN "attr"
    ELSE "ppif"

UseArg(u) ==
    CASE u \in {"likely(a)", "unlikely(a)"} -> <<"a">>
      [] u \in {"likely(a || b)", "unlikely(a || b)"} -> <<"a", "||", "b">>
      [] u \in {"likely(a - b)", "unlikely(a - b)"} -> <<"a", "-", "b">>
      [] u \in {"likely(i++)", "unlikely(i++)"} -> <<"i", "++">>
      [] u = "DEBUG(fmt)" -> <<"\"fmt\"">>
      [] u = "DEBUG(fmt, i++)" -> <<"\"fmt\"", ",", "i", "++">>
      [] u = "DEBUG(fmt, i++, a)" -> <<"\"fmt\"", ",", "i", "++", ",", "a">>
      [] u = "ATTRIBUTE_ALIGNED(64)" -> <<"64">>
      [] OTHER -> <<>>

UseMacro(u) ==
    CASE u \in {"likely(a)", "likely(a || b)", "likely(a - b)", "likely(i++)"} -> "likely"
      [] u \in {"unlikely(a)", "unlikely(a || b)", "unlikely(a - b)", "unlikely(i++)"}
           -> "unlikely"
      [] u \in StmtUses -> "DEBUG"
      [] u = "ATTRIBUTE_ALIGNED(64)" -> "ATTRIBUTE_ALIGNED"
      [] u = "CACHELINE_ALIGNED" -> "CACHELINE_ALIGNED"
      [] u = "CACHELINE_ALIGNED_FN" -> "CACHELINE_ALIGNED_FN"
      [] u = "#if USE_COMPRESSED_PTRS" -> "USE_COMPRESSED_PTRS"
      [] u = "#if USE_SIZE_CACHES" -> "USE_SIZE_CACHES"
      [] OTHER -> "CACHELINE_SIZE"

UseToks(u) ==
    IF u \in CondUses \cup StmtUses \cup {"ATTRIBUTE_ALIGNED(64)"}
      THEN <<UseMacro(u), "(">> \o UseArg(u) \o <<")">>
      ELSE <<UseMacro(u)>>

Ints == (0 - MaxInt)..MaxInt

\* a and b are any integers, i is a counter that starts at 0..MaxCount.
Stores == {s \in [ProgVars -> Ints] : s["i"] \in 0..MaxCount}

NoRes == [ok |-> FALSE, val |-> 0, st |-> [v \in ProgVars |-> 0],
          cnt |-> [v \in ProgVars |-> 0], hint |-> -1, calls |-> -1,
          st0 |-> [v \in ProgVars |-> 0]]

\* The translation unit reaches a use of one of the macros, after it has
\* included the header.
BeginUse(u) ==
    /\ pc = 0
    /\ incl >= 1
    /\ use = "none"
    /\ use' = u
    /\ toks' = UseToks(u)
    /\ steps' = 0
    /\ res' = NoRes
    /\ UNCHANGED ppvars

\* One macro replacement at the use site.
Replace ==
    /\ use # "none"
    /\ res = NoRes
    /\ Reducible(toks, defs)
    /\ toks' = Rewrite(toks, defs)
    /\ steps' = steps + 1
    /\ UNCHANGED <<use, res>>
    /\ UNCHANGED ppvars

\* Nothing is left to replace: the tokens are compiled and, for code, run
\* from some values of the program's variables.
Evaluate(store) ==
    /\ use # "none"
    /\ res = NoRes
    /\ ~Reducible(toks, defs)
    /\ res' = Eval(UseKind(use), toks, store)
    /\ UNCHANGED <<use, toks, steps>>
    /\ UNCHANGED ppvars

\* The translation unit moves on.
EndUse ==
    /\ use # "none"
    /\ res # NoRes
    /\ use' = "none"
    /\ toks' = <<>>
    /\ steps' = 0
    /\ res' = NoRes
    /\ UNCHANGED ppvars

Init ==
    /\ PPInit
    /\ use = "none"
    /\ toks = <<>>
    /\ steps = 0
    /\ res = NoRes

Next ==
    \/ \E recognised \in BOOLEAN : Include(recognised)
    \/ StepPragmaOnce
    \/ StepBlank
    \/ StepIfndef
    \/ StepIfdef
    \/ StepElse
    \/ StepEndif
    \/ StepDefine
    \/ StepSkipped
    \/ EndOfFile
    \/ \E u \in Uses : BeginUse(u)
    \/ Replace
    \/ \E store \in Stores : Evaluate(store)
    \/ EndUse

Spec == Init /\ [][Next]_vars

TypeOK ==
    /\ env \subseteq EnvNames
    /\ DOMAIN defs = MacroNames
    /\ pc \in 0..(Len(Header) + 1)
    /\ incl \in 0..MaxIncl
    /\ onceSeen \in BOOLEAN
    /\ use \in Uses \cup {"none"}
    /\ steps \in Nat

(***************************************************************************)
(* Properties                                                              *)
(***************************************************************************)

\* The includer is past at least one inclusion of the header.
Included == pc = 0 /\ incl >= 1

\* The use site u has been fully macro-replaced, compiled and run.
Done(u) == use = u /\ res # NoRes

\* The use site invokes a macro that is in force as the header defined it.
ByHeader(u) == defs[UseMacro(u)].by = "header"

\* The value of the argument written at a use site of likely or unlikely.
ArgVal(u, st) ==
    CASE u \in {"likely(a)", "unlikely(a)"} -> st["a"]
      [] u \in {"likely(a || b)", "unlikely(a || b)"} ->
           IF st["a"] # 0 \/ st["b"] # 0 THEN 1 ELSE 0
      [] u \in {"likely(a - b)", "unlikely(a - b)"} -> st["a"] - st["b"]
      [] OTHER -> st["i"]

\* The expectation the macro of a use site stands for.
Expected(u) == IF UseMacro(u) = "likely" THEN 1 ELSE 0

\* C1: including the header again changes nothing: every #define that was
\* executed belongs to the first inclusion, and from the second inclusion on
\* the macro table is the one the first inclusion left.
Thm_C1 ==
    /\ \A e \in log : e[1] = 1
    /\ incl >= 2 => defs = after1

\* A later inclusion whose lines were processed to the end of the file,
\* #pragma once not having recognised the file.
Wit_C1 ==
    /\ incl >= 2
    /\ pc = Len(Header) + 1
    /\ defs = after1
    /\ defs["CACHELINE_SIZE"] = CACHELINE_SIZE
    /\ log # {}

\* C2: a DEBUG(format, args) use is replaced by a printf call of the file
\* name, the line number, the format and the arguments when __DEBUG was
\* defined at the inclusion, and by no tokens at all when it was not.
Thm_C2 ==
    \A u \in StmtUses :
        Done(u) =>
            IF "__DEBUG" \in env
              THEN /\ toks = <<"printf", "(", "\"FILE: \"", FileTok,
                               "\", LINE: %d: \"", UseArg(u)[1], "\"\\n\"", ",",
                               LineTok>>
                             \o SubSeq(UseArg(u), 2, Len(UseArg(u))) \o <<")">>
                   /\ res.ok
                   /\ res.calls = 1
              ELSE /\ toks = <<>>
                   /\ res.calls = 0

Wit_C2 ==
    /\ Done("DEBUG(fmt, i++)")
    /\ "__DEBUG" \in env
    /\ toks[1] = "printf"
    /\ res.calls = 1

\* C3 (as claimed): once the header has been included, each of the thirteen
\* exported names is defined, whatever was defined before the inclusion.
Orig_C3 == Included => \A n \in Exported : defs[n] # Undef

Thm_C5 ==
    /\ Done("#if CACHELINE_SIZE") => toks = <<"64">> /\ res.val = 64
    /\ \A u \in AttrUses :
           /\ Done(u) =>
                  /\ toks = <<"__attribute__", "(", "(", "aligned", "(", "64",
                              ")", ")", ")">>
                  /\ res.ok
           /\ use = u => steps <= 4
           /\ (use = u /\ steps = 4) => ~Reducible(toks, defs)

Wit_C5 ==
    /\ Done("CACHELINE_ALIGNED_FN")
    /\ steps = 4
    /\ "CACHELINE_SIZE" \in env
    /\ toks[6] = "64"

\* C6: both feature flags are replaced by 0, so that the group of an
\* #if USE_COMPRESSED_PTRS or #if USE_SIZE_CACHES is skipped.
Thm_C6 ==
    \A u \in {"#if USE_COMPRESSED_PTRS", "#if USE_SIZE_CACHES"} :
        Done(u) => toks = <<"0">> /\ res.ok /\ res.val = 0

Wit_C6 ==
    /\ Done("#if USE_SIZE_CACHES")
    /\ "USE_SIZE_CACHES" \in env
    /\ "USE_SIZE_CACHES" \in redefined
    /\ res.val = 0

\* C7: the header's likely(x) and unlikely(x) are 1 when x is not zero and 0
\* when it is, change no variable, and pass __builtin_expect the expectation
\* 1 (likely) or 0 (unlikely).
Thm_C7 ==
    \A u \in {"likely(a)", "unlikely(a)"} :
        (Done(u) /\ ByHeader(u)) =>
            /\ res.ok
            /\ res.val = IF res.st0["a"] # 0 THEN 1 ELSE 0
            /\ res.hint = Expected(u)
            /\ res.st = res.st0

Wit_C7 ==
    /\ Done("likely(a)")
    /\ ByHeader("likely(a)")
    /\ res.st0["a"] < -1
    /\ res.val = 1
    /\ res.hint = 1

\* C8 (as claimed): in either branch of either guard, a use of DEBUG, of
\* likely or of unlikely is well-formed C++ once it has been replaced.
Orig_C8 ==
    \A u \in CondUses \cup StmtUses : Done(u) => res.ok

\* C9: when __DEBUG was not defined, a DEBUG statement evaluates no argument
\* and leaves every variable as it was; when it was defined, the statement
\* evaluates each argument exactly once.
Thm_C9 ==
    \A u \in StmtUses :
        Done(u) =>
            IF "__DEBUG" \in env
              THEN /\ res.ok
                   /\ res.cnt["i"] = (IF u = "DEBUG(fmt)" THEN 0 ELSE 1)
                   /\ res.st["i"] = res.st0["i"] + res.cnt["i"]
                   /\ res.cnt["a"] = (IF u = "DEBUG(fmt, i++, a)" THEN 1 ELSE 0)
                   /\ res.cnt["b"] = 0
                   /\ res.st["a"] = res.st0["a"]
                   /\ res.st["b"] = res.st0["b"]
              ELSE /\ res.st = res.st0
                   /\ \A v \in ProgVars : res.cnt[v] = 0
                   /\ res.calls = 0

Wit_C9 ==
    /\ Done("DEBUG(fmt, i++, a)")
    /\ "__DEBUG" \notin env
    /\ res.st0["i"] = 1
    /\ res.st["i"] = 1
    /\ res.cnt["i"] = 0

\* C10: the header's likely(x) and unlikely(x) contain x once, in
\* parentheses under the !!: the argument is tested as a whole and is
\* evaluated once.
Thm_C10 ==
    \A u \in CondUses :
        (Done(u) /\ ByHeader(u)) =>
            /\ toks = <<"__builtin_expect", "(", "!", "!", "(">> \o UseArg(u)
                        \o <<")", ",", IF Expected(u) = 1 THEN "1" ELSE "0", ")">>
            /\ res.ok
            /\ res.val = (IF ArgVal(u, res.st0) # 0 THEN 1 ELSE 0)
            /\ res.cnt["i"] = (IF u \in {"likely(i++)", "unlikely(i++)"} THEN 1 ELSE 0)
            /\ res.st["i"] = res.st0["i"] + res.cnt["i"]
            /\ res.cnt["a"] = (IF u \in {"likely(i++)", "unlikely(i++)"} THEN 0 ELSE 1)
            /\ res.st["a"] = res.st0["a"]
            /\ res.st["b"] = res.st0["b"]

Wit_C10 ==
    /\ Done("unlikely(a - b)")
    /\ ByHeader("unlikely(a - b)")
    /\ res.st0["a"] = 1
    /\ res.st0["b"] = 1
    /\ res.val = 0
====
